---------------------------- MODULE Spec2Model ----------------------------
(***************************************************************************)
(* Model of scripts/generate-travel.js: the travel page generator.         *)
(*                                                                         *)
(* A text is a sequence of UTF-16 code units, each a one-character string. *)
(* The fixed chunks of the source's template literals and string constants *)
(* ("Unknown date", month names, HTML scaffolding) are kept as single      *)
(* elements; none of them contains "$", so String.prototype.replace's      *)
(* substitution patterns only ever arise from input text.  Indentation and *)
(* emoji of the HTML literals are elided.                                  *)
(*                                                                         *)
(* A JavaScript value is a record tagged by its type: Undef, NullV,        *)
(* Str(text), Num(n), DateV(minutes) and InvalidDate.                      *)
(***************************************************************************)
EXTENDS Integers, Sequences, FiniteSets, TLC

VARIABLES
    pc,             \* position of main(): start, checkTemplate, listRoot, scan, render, assemble, write, done, aborted, crashed
    rootKind,       \* what fs.existsSync(TRAVEL_DIR) met: unknown, absent, dir, file
    tmplExists,     \* what fs.existsSync(TEMPLATE_FILE) answered: unknown, yes, no
    tmplRead,       \* what fs.readFileSync(TEMPLATE_FILE) did: Undef (not called), ReadError, Str(text)
    fsRoot,         \* the entries fs.readdirSync(TRAVEL_DIR) listed (set of [name, isDir])
    fsDir,          \* per scanned trip directory, in tripDirs' order: whether fs.readdirSync threw, and the set of names it gave
    prior,          \* travel.html before the run: NoFile or Str(text)
    output,         \* travel.html now
    written,        \* whether fs.writeFileSync('travel.html', ...) was called
    tripDirs,       \* main's tripDirs
    trips,          \* main's trips
    dirIdx,         \* index of the forEach over tripDirs
    tripIdx,        \* index of the for-of over trips in generateTravelPage
    imgIdx,         \* index of the for-of over images in generateTripSection
    imageElements,  \* generateTripSection's imageElements
    tripSections,   \* generateTravelPage's tripSections
    content,        \* generateTravelPage's content
    travelHtml,     \* main's travelHtml
    decoded,        \* log of getImageMetadata calls: <<[dir, name, outcome, meta]>>
    dirParts,       \* the dash-separated parts a directory name is made of
    dirName,        \* argument of a direct formatTripName call
    tripName,       \* its result
    exifData,       \* what exifr.parse gave in a direct getImageMetadata call
    metadata,       \* that call's result
    imageElement    \* the image block generateTripSection renders from it

vars == <<pc, rootKind, tmplExists, tmplRead, fsRoot, fsDir, prior, output, written,
          tripDirs, trips, dirIdx, tripIdx, imgIdx, imageElements, tripSections, content,
          travelHtml, decoded, dirParts, dirName, tripName, exifData, metadata,
          imageElement>>

pipelineVars == <<pc, rootKind, tmplExists, tmplRead, fsRoot, fsDir, prior,
                  output, written, tripDirs, trips, dirIdx, tripIdx, imgIdx, imageElements,
                  tripSections, content, travelHtml, decoded>>

fmtVars == <<dirParts, dirName, tripName>>

metaVars == <<exifData, metadata, imageElement>>

---------------------------------------------------------------------------
(* JavaScript values *)

Undef == [t |-> "undefined"]

NullV == [t |-> "null"]

Str(s) == [t |-> "string", v |-> s]

Num(n) == [t |-> "number", v |-> n]

NaN == [t |-> "number", nan |-> TRUE]

DateV(m) == [t |-> "date", valid |-> TRUE, min |-> m]

InvalidDate == [t |-> "date", valid |-> FALSE]

\* ToBoolean, as the conditions `if (x)`, `x && y`, `x || y`, `x ? a : b` apply it
Truthy(x) ==
    CASE x.t = "undefined" -> FALSE
      [] x.t = "null" -> FALSE
      [] x.t = "string" -> x.v # <<>>
      [] x.t = "number" -> x # NaN /\ x.v # 0
      [] OTHER -> TRUE

---------------------------------------------------------------------------
(* Texts *)

Digits == <<"0", "1", "2", "3", "4", "5", "6", "7", "8", "9">>

LowerCase == <<"a", "b", "c", "d", "e", "f", "g", "h", "i", "j", "k", "l", "m",
               "n", "o", "p", "q", "r", "s", "t", "u", "v", "w", "x", "y", "z">>

UpperCase == <<"A", "B", "C", "D", "E", "F", "G", "H", "I", "J", "K", "L", "M",
               "N", "O", "P", "Q", "R", "S", "T", "U", "V", "W", "X", "Y", "Z">>

\* the code unit U+0060 (grave accent), which a TLA+ string cannot hold
Grave == "U+0060"

\* the code units of the model's input alphabet, in ascending code order
CodeUnits == <<" ", "!", "$", "&", "'", "+", "-", ".", "/">> \o Digits
             \o <<"<", ">">> \o UpperCase \o <<Grave>> \o LowerCase

IndexIn(c, seq) == IF \E n \in 1..Len(seq) : seq[n] = c
                   THEN CHOOSE n \in 1..Len(seq) : seq[n] = c
                   ELSE 0

Code(c) == IndexIn(c, CodeUnits)

toUpperCase(c) == IF IndexIn(c, LowerCase) > 0 THEN UpperCase[IndexIn(c, LowerCase)] ELSE c

toLowerCaseChar(c) == IF IndexIn(c, UpperCase) > 0 THEN LowerCase[IndexIn(c, UpperCase)] ELSE c

toLowerCase(s) == [n \in 1..Len(s) |-> toLowerCaseChar(s[n])]

RECURSIVE Concat(_)
Concat(seqs) == IF seqs = <<>> THEN <<>> ELSE Head(seqs) \o Concat(Tail(seqs))

\* Array.prototype.join
RECURSIVE join(_, _)
join(seqs, sep) ==
    IF seqs = <<>> THEN <<>>
    ELSE IF Len(seqs) = 1 THEN seqs[1]
    ELSE seqs[1] \o sep \o join(Tail(seqs), sep)

\* first index at or after `from` where pattern occurs in s, 0 when none
IndexOf(s, pattern, from) ==
    LET hits == {n \in from..(Len(s) - Len(pattern) + 1) :
                    \A m \in 1..Len(pattern) : s[n + m - 1] = pattern[m]}
    IN IF hits = {} THEN 0 ELSE CHOOSE n \in hits : \A m \in hits : n <= m

\* String.prototype.split with a one-unit separator
RECURSIVE split(_, _)
split(s, sep) ==
    LET p == IndexOf(s, <<sep>>, 1)
    IN IF p = 0 THEN <<s>>
       ELSE <<SubSeq(s, 1, p - 1)>> \o split(SubSeq(s, p + 1, Len(s)), sep)

\* Number to its decimal text
RECURSIVE NatToText(_)
NatToText(n) == IF n < 10 THEN <<Digits[n + 1]>>
                ELSE NatToText(n \div 10) \o <<Digits[(n % 10) + 1]>>

NumToText(n) == IF n < 0 THEN <<"-">> \o NatToText(-n) ELSE NatToText(n)

\* the default comparison of Array.prototype.sort: by code units, a proper prefix first
StrLess(a, b) ==
    \E n \in 0..Len(a) :
        /\ n <= Len(b)
        /\ \A m \in 1..n : a[m] = b[m]
        /\ \/ n = Len(a) /\ n < Len(b)
           \/ n < Len(a) /\ n < Len(b) /\ Code(a[n + 1]) < Code(b[n + 1])

RECURSIVE InsertSorted(_, _)
InsertSorted(x, s) ==
    IF s = <<>> THEN <<x>>
    ELSE IF StrLess(x, s[1]) THEN <<x>> \o s
    ELSE <<s[1]>> \o InsertSorted(x, Tail(s))

RECURSIVE sort(_)
sort(s) == IF s = <<>> THEN <<>> ELSE InsertSorted(s[Len(s)], sort(SubSeq(s, 1, Len(s) - 1)))

---------------------------------------------------------------------------
(* formatTripName *)

monthNames == <<"January", "February", "March", "April", "May", "June",
                "July", "August", "September", "October", "November", "December">>

HexDigits == Digits \o <<"a", "b", "c", "d", "e", "f">>

\* value of a digit in the radix, -1 when c is no digit of it
DigitValue(c, radix) ==
    LET n == IndexIn(toLowerCaseChar(c), HexDigits)
    IN IF n > 0 /\ n <= radix THEN n - 1 ELSE -1

RECURSIVE DigitsValue(_, _, _)
DigitsValue(s, radix, acc) ==
    IF s = <<>> \/ DigitValue(s[1], radix) < 0 THEN acc
    ELSE DigitsValue(Tail(s), radix, acc * radix + DigitValue(s[1], radix))

RECURSIVE TrimStart(_)
TrimStart(s) == IF s # <<>> /\ s[1] = " " THEN TrimStart(Tail(s)) ELSE s

\* parseInt(x) with no radix: ToString, leading white space, sign, 0x prefix,
\* then the longest run of digits; NaN when that run is empty
parseInt(x) ==
    IF x.t # "string" THEN NaN
    ELSE
    LET s0 == TrimStart(x.v)
        neg == s0 # <<>> /\ s0[1] = "-"
        s1 == IF s0 # <<>> /\ s0[1] \in {"+", "-"} THEN Tail(s0) ELSE s0
        hex == Len(s1) >= 2 /\ s1[1] = "0" /\ s1[2] \in {"x", "X"}
        s2 == IF hex THEN SubSeq(s1, 3, Len(s1)) ELSE s1
        radix == IF hex THEN 16 ELSE 10
    IN IF s2 = <<>> \/ DigitValue(s2[1], radix) < 0 THEN NaN
       ELSE Num((IF neg THEN -1 ELSE 1) * DigitsValue(s2, radix, 0))

\* parts[n] of a JavaScript array (n from 0)
At(parts, n) == IF n + 1 \in 1..Len(parts) THEN Str(parts[n + 1]) ELSE Undef

\* `${x}` of a string or undefined
Interpolate(x) == IF x.t = "string" THEN x.v ELSE <<"undefined">>

MonthNameOffByOne(month) ==
    LET n == parseInt(month)
    IN IF n # NaN /\ n.v \in 1..12 THEN Str(<<monthNames[(n.v % 12) + 1]>>) ELSE month

\* monthNames[parseInt(month) - 1] || month
MonthName(month) ==
    LET n == parseInt(month)
    IN IF n # NaN /\ (n.v - 1) \in 0..11 THEN Str(<<monthNames[n.v]>>) ELSE month

\* word.charAt(0).toUpperCase() + word.slice(1)
Capitalize(word) == IF word = <<>> THEN <<>> ELSE <<toUpperCase(word[1])>> \o Tail(word)

formatTripName(dir) ==
    LET parts == split(dir, "-")
        year == At(parts, 0)
        month == At(parts, 1)
        location == join(SubSeq(parts, 3, Len(parts)), <<" ">>)
        monthName == MonthName(month)
        words == split(location, " ")
        locationFormatted == join([n \in 1..Len(words) |-> Capitalize(words[n])], <<" ">>)
    IN Interpolate(monthName) \o <<" ">> \o Interpolate(year) \o <<",", " ">> \o locationFormatted

---------------------------------------------------------------------------
(* getImageMetadata *)

\* what `await exifr.parse(imagePath, ...)` does: rejects, resolves to
\* undefined, or resolves to a record of tags (an absent tag reads undefined)
Throws == [kind |-> "throws"]

NoData == [kind |-> "nodata"]

Data(dto, dt, make, model, lat, lng, descr, comment) ==
    [kind |-> "data", DateTimeOriginal |-> dto, DateTime |-> dt, Make |-> make,
     Model |-> model, latitude |-> lat, longitude |-> lng,
     ImageDescription |-> descr, UserComment |-> comment]

\* a promise rejected by getImageMetadata, as `await` in generateTripSection would see it
Rejected == [kind |-> "rejected"]

weekdayNames == <<"Sunday", "Monday", "Tuesday", "Wednesday", "Thursday", "Friday", "Saturday">>

\* new Date(x): a Date is copied; the texts exifr leaves unrevived are the
\* ones no date pattern accepts, and Date.parse gives NaN for them
NewDate(x) == IF x.t = "date" THEN x ELSE InvalidDate

TwoDigit(n) == IF n < 10 THEN <<"0">> \o NatToText(n) ELSE NatToText(n)

\* date.toLocaleDateString('en-US', {weekday: 'long', year: 'numeric', month: 'long',
\* day: 'numeric', hour: '2-digit', minute: '2-digit'}), with UTC as the local
\* time zone and ", " between date and time (newer ICU data puts " at " there)
toLocaleDateString(date) ==
    IF ~date.valid THEN <<"Invalid Date">>
    ELSE
    LET days == date.min \div 1440
        rem == date.min % 1440
        hour == rem \div 60
        minute == rem % 60
        z == days + 719468
        era == z \div 146097
        doe == z - era * 146097
        yoe == (doe - doe \div 1460 + doe \div 36524 - doe \div 146096) \div 365
        doy == doe - (365 * yoe + yoe \div 4 - yoe \div 100)
        mp == (5 * doy + 2) \div 153
        day == doy - (153 * mp + 2) \div 5 + 1
        month == IF mp < 10 THEN mp + 3 ELSE mp - 9
        year == yoe + era * 400 + (IF month <= 2 THEN 1 ELSE 0)
        hour12 == IF hour % 12 = 0 THEN 12 ELSE hour % 12
    IN <<weekdayNames[((days + 4) % 7) + 1], ",", " ", monthNames[month], " ">>
       \o NatToText(day) \o <<",", " ">> \o NatToText(year) \o <<",", " ">>
       \o TwoDigit(hour12) \o <<":">> \o TwoDigit(minute)
       \o <<" ", IF hour < 12 THEN "AM" ELSE "PM">>

Fallback == [date |-> <<"Unknown date">>, camera |-> <<"Unknown camera">>,
             location |-> NullV, description |-> NullV]

\* lines 55-75
MetadataDate(exif) ==
    IF Truthy(exif.DateTimeOriginal) THEN toLocaleDateString(NewDate(exif.DateTimeOriginal))
    ELSE IF Truthy(exif.DateTime) THEN toLocaleDateString(NewDate(exif.DateTime))
    ELSE <<"Unknown date">>

\* lines 77-83
MetadataCamera(exif) ==
    IF Truthy(exif.Make) /\ Truthy(exif.Model) THEN exif.Make.v \o <<" ">> \o exif.Model.v
    ELSE IF Truthy(exif.Make) THEN exif.Make.v
    ELSE IF Truthy(exif.Model) THEN exif.Model.v
    ELSE <<"Unknown camera">>

\* lines 85-90
MetadataLocation(exif) ==
    IF Truthy(exif.latitude) /\ Truthy(exif.longitude)
    THEN [t |-> "object", lat |-> exif.latitude, lng |-> exif.longitude]
    ELSE NullV

MetadataDescriptionCommentFirst(exif) ==
    IF Truthy(exif.UserComment) THEN exif.UserComment
    ELSE IF Truthy(exif.ImageDescription) THEN exif.ImageDescription
    ELSE NullV

\* lines 92-96
MetadataDescription(exif) ==
    IF Truthy(exif.ImageDescription) THEN exif.ImageDescription
    ELSE IF Truthy(exif.UserComment) THEN exif.UserComment
    ELSE NullV

getImageMetadataRethrows(exif) ==
    IF exif.kind = "throws" THEN Rejected
    ELSE IF exif.kind = "nodata" THEN Fallback
    ELSE [date |-> MetadataDate(exif), camera |-> MetadataCamera(exif),
          location |-> MetadataLocation(exif), description |-> MetadataDescription(exif)]

\* the value the promise of getImageMetadata(imagePath) resolves to, given
\* what exifr.parse did
getImageMetadata(exif) ==
    IF exif.kind = "throws" THEN Fallback
    ELSE IF exif.kind = "nodata" THEN Fallback
    ELSE [date |-> MetadataDate(exif), camera |-> MetadataCamera(exif),
          location |-> MetadataLocation(exif), description |-> MetadataDescription(exif)]

---------------------------------------------------------------------------
(* generateTripSection *)

\* `${x}` in a template literal
ToText(x) ==
    CASE x.t = "string" -> x.v
      [] x.t = "number" -> IF x = NaN THEN <<"NaN">> ELSE NumToText(x.v)
      [] x.t = "null" -> <<"null">>
      [] OTHER -> <<"undefined">>

MapLinkOpen == "<p class=\"location\"><a href=\"https://maps.google.com/?q="

MapLinkClose == "\" target=\"_blank\">View on Map</a></p>"

DescriptionOpen == "<p class=\"description\">"

ImageOpen == "<div class=\"image-container\"><img src=\"/public/travel/"

AltOpen == "\" alt=\""

DateOpen == "\" loading=\"lazy\"><div class=\"image-info\"><p class=\"date\">"

CameraOpen == "</p><p class=\"camera\">"

ParagraphClose == "</p>"

ImageClose == "</div></div>"

\* lines 136-138
locationInfo(meta) ==
    IF Truthy(meta.location)
    THEN <<MapLinkOpen>> \o ToText(meta.location.lat) \o <<",">> \o ToText(meta.location.lng)
         \o <<MapLinkClose>>
    ELSE <<>>

\* lines 140-142
descriptionInfo(meta) ==
    IF Truthy(meta.description)
    THEN <<DescriptionOpen>> \o ToText(meta.description) \o <<ParagraphClose>>
    ELSE <<>>

\* lines 144-153
RenderImageElement(tripDir, name, imageName, meta) ==
    <<ImageOpen>> \o tripDir \o <<"/">> \o imageName \o <<AltOpen>>
    \o name \o <<" ", "-", " ">> \o imageName \o <<DateOpen>>
    \o meta.date \o <<CameraOpen>> \o meta.camera \o <<ParagraphClose>>
    \o locationInfo(meta) \o descriptionInfo(meta) \o <<ImageClose>>

SectionOpen == "<section class=\"trip-section\" id=\""

TitleOpen == "\"><div class=\"trip-header\"><h2 class=\"trip-title\">"

CountOpen == "</h2><div class=\"trip-meta\"><span class=\"trip-count\">"

CountClose == " photos</span></div></div><div class=\"gallery\">"

SectionClose == "</div></section>"

\* lines 158-169
RenderSection(tripDir, name, images, elements) ==
    <<SectionOpen>> \o tripDir \o <<TitleOpen>> \o name \o <<CountOpen>>
    \o NumToText(Len(images)) \o <<CountClose>> \o Concat(elements) \o <<SectionClose>>

---------------------------------------------------------------------------
(* getImageFiles *)

IMAGE_EXTENSIONS == {<<".", "j", "p", "g">>, <<".", "j", "p", "e", "g">>, <<".", "p", "n", "g">>,
                     <<".", "g", "i", "f">>, <<".", "w", "e", "b", "p">>}

\* path.extname of a name without separators: from the last dot, unless the
\* name has no dot, starts with its only dot, or is ".."
extname(file) ==
    LET dots == {n \in 1..Len(file) : file[n] = "."}
        last == CHOOSE n \in dots : \A m \in dots : m <= n
    IN IF dots = {} THEN <<>>
       ELSE IF last = 1 \/ file = <<".", ".">> THEN <<>>
       ELSE SubSeq(file, last, Len(file))

\* lines 13-14
IsImage(file) == toLowerCase(extname(file)) \in IMAGE_EXTENSIONS

\* what fs.readdirSync(dirPath) does: throws, or returns the names in the
\* order the file system lists them
Unreadable == [kind |-> "throws"]

Listing(files) == [kind |-> "names", files |-> files]

getImageFiles(res) ==
    IF res.kind = "throws" THEN <<>>
    ELSE sort(SelectSeq(res.files, IsImage))

---------------------------------------------------------------------------
(* generateTravelPage *)

Marker == <<"<", "!", "-", "-", " ", "P", "U", "T", " ", "C", "O", "N", "T", "E", "N", "T", " ", "H", "E", "R", "E", " ", "-", "-", ">">>

NoTrips == "<div class=\"no-trips\"><h2>No trips found</h2></div>"

\* the concatenation of pieces[lo..hi], by halves
RECURSIVE Flatten(_, _, _)
Flatten(pieces, lo, hi) ==
    IF lo > hi THEN <<>>
    ELSE IF lo = hi THEN pieces[lo]
    ELSE Flatten(pieces, lo, (lo + hi) \div 2) \o Flatten(pieces, ((lo + hi) \div 2) + 1, hi)

\* GetSubstitution for a string pattern (no captures), scanning the
\* replacement from the left: $$ is "$", $& the match, $` the text before
\* it, $' the text after it; any other "$" stays.  A "$" opens a pattern
\* when one of those four units follows it and it is not itself the second
\* unit of a "$$": when an even number of "$" stand directly before it.
GetSubstitution(replacement, matched, before, after) ==
    LET runStart(n) == CHOOSE a \in 1..n :
                           /\ \A j \in a..n : replacement[j] = "$"
                           /\ a = 1 \/ replacement[a - 1] # "$"
        opens(n) == /\ n >= 1 /\ n < Len(replacement)
                    /\ replacement[n] = "$"
                    /\ replacement[n + 1] \in {"$", "&", Grave, "'"}
                    /\ (n - runStart(n)) % 2 = 0
        piece(n) == IF opens(n)
                    THEN (CASE replacement[n + 1] = "$" -> <<"$">>
                            [] replacement[n + 1] = "&" -> matched
                            [] replacement[n + 1] = Grave -> before
                            [] OTHER -> after)
                    ELSE IF opens(n - 1) THEN <<>>
                    ELSE <<replacement[n]>>
    IN Flatten([n \in 1..Len(replacement) |-> piece(n)], 1, Len(replacement))

\* String.prototype.replace(pattern, replacement) with a string pattern: the
\* first occurrence only
replace(str, pattern, replacement) ==
    LET p == IndexOf(str, pattern, 1)
        before == SubSeq(str, 1, p - 1)
        after == SubSeq(str, p + Len(pattern), Len(str))
    IN IF p = 0 THEN str
       ELSE before \o GetSubstitution(replacement, pattern, before, after) \o after

\* what fs.readFileSync(TEMPLATE_FILE, 'utf8') does: throws or returns the text
ReadError == [t |-> "error"]

\* line 180
PageContent(tripList, sections) ==
    IF Len(tripList) > 0 THEN Concat(sections) ELSE <<NoTrips>>

\* lines 182-189
generateTravelPage(pageContent, read) ==
    IF read = ReadError THEN NullV
    ELSE Str(replace(read.v, Marker, pageContent))

ShouldWriteUnlessUndefined(html) == html # Undef

\* line 235: if (travelHtml)
ShouldWrite(html) == Truthy(html)

---------------------------------------------------------------------------
(* The file system and the decoder the run meets *)

\* most entries of the root directory
MaxRootEntries == 2

Entry(name, isDir) == [name |-> name, isDirectory |-> isDir]

RootEntries == {Entry(<<"2", "0", "2", "3", "-", "0", "7", "-", "x">>, TRUE), Entry(<<"$", "$", "b">>, TRUE),
                Entry(<<"$", "a">>, TRUE), Entry(<<"r", ".", "j", "p", "g">>, FALSE)}

\* what listing a trip directory may give: the names in file-system order
DirListings == {<<>>,
                <<<<".", "g", "i", "f">>, <<"n", ".", "t", "x", "t">>>>,
                <<<<"b", ".", "j", "p", "g">>>>,
                <<<<"b", ".", "j", "p", "g">>, <<"n", ".", "t", "x", "t">>, <<"a", ".", "P", "N", "G">>>>}

\* the sequences of at most n distinct elements of S
Arrangements(S, n) ==
    {s \in UNION {[1..m -> S] : m \in 0..n} :
        \A a, b \in 1..Len(s) : a # b => s[a] # s[b]}

Range(s) == {s[n] : n \in 1..Len(s)}

NoFile == [t |-> "nofile"]

PriorOutputs == {NoFile, Str(<<"o", "l", "d">>)}

Templates == {<<>>, <<"h">>, Marker, <<"h">> \o Marker \o <<"f">>,
              Marker \o <<"m">> \o Marker}

PipelineExif == {Throws, NoData,
                 Data(DateV(28155825), Undef, Str(<<"X">>), Str(<<"T">>), Num(48), Num(2),
                      Str(<<"H", "i">>), Undef)}

---------------------------------------------------------------------------
(* main *)

IsDirectory(dirent) == dirent.isDirectory

NamesOf(dirents) == [n \in 1..Len(dirents) |-> dirents[n].name]

\* lines 205-208
ListTripDirs(dirents) == sort(NamesOf(SelectSeq(dirents, IsDirectory)))

IdleFmt == dirParts = <<>> /\ dirName = <<>> /\ tripName = Undef

IdleMeta == exifData = NoData /\ metadata = Undef /\ imageElement = <<>>

IdlePipeline ==
    /\ pc = "idle" /\ rootKind = "unknown" /\ tmplExists = "unknown" /\ tmplRead = Undef
    /\ fsRoot = {} /\ fsDir = <<>> /\ prior = NoFile /\ output = NoFile /\ written = FALSE
    /\ tripDirs = <<>> /\ trips = <<>> /\ dirIdx = 1 /\ tripIdx = 1 /\ imgIdx = 1
    /\ imageElements = <<>> /\ tripSections = <<>> /\ content = <<>>
    /\ travelHtml = Undef /\ decoded = <<>>

Init ==
    /\ pc = "start" /\ rootKind = "unknown" /\ tmplExists = "unknown" /\ tmplRead = Undef
    /\ fsRoot = {} /\ fsDir = <<>>
    /\ prior \in PriorOutputs /\ output = prior /\ written = FALSE
    /\ tripDirs = <<>> /\ trips = <<>> /\ dirIdx = 1 /\ tripIdx = 1 /\ imgIdx = 1
    /\ imageElements = <<>> /\ tripSections = <<>> /\ content = <<>>
    /\ travelHtml = Undef /\ decoded = <<>>
    /\ IdleFmt /\ IdleMeta

\* lines 195-198: fs.existsSync(TRAVEL_DIR)
CheckTravelDir ==
    /\ pc = "start"
    /\ \E kind \in {"absent", "dir", "file"} :
        /\ rootKind' = kind
        /\ pc' = IF kind = "absent" THEN "aborted" ELSE "checkTemplate"
    /\ UNCHANGED <<tmplExists, tmplRead, fsRoot, fsDir, prior, output, written, tripDirs,
                   trips, dirIdx, tripIdx, imgIdx, imageElements, tripSections, content,
                   travelHtml, decoded, fmtVars, metaVars>>

\* lines 200-203: fs.existsSync(TEMPLATE_FILE)
CheckTemplate ==
    /\ pc = "checkTemplate"
    /\ \E exists \in {"yes", "no"} :
        /\ tmplExists' = exists
        /\ pc' = IF exists = "no" THEN "aborted" ELSE "listRoot"
    /\ UNCHANGED <<rootKind, tmplRead, fsRoot, fsDir, prior, output, written, tripDirs,
                   trips, dirIdx, tripIdx, imgIdx, imageElements, tripSections, content,
                   travelHtml, decoded, fmtVars, metaVars>>

\* lines 205-212: fs.readdirSync(TRAVEL_DIR, {withFileTypes: true}) throws
\* ENOTDIR, uncaught, when the path is not a directory
ListRoot ==
    /\ pc = "listRoot"
    /\ IF rootKind = "file"
       THEN pc' = "crashed" /\ UNCHANGED <<fsRoot, tripDirs>>
       ELSE \E dirents \in Arrangements(RootEntries, MaxRootEntries) :
               /\ fsRoot' = Range(dirents)
               /\ tripDirs' = ListTripDirs(dirents)
               /\ pc' = IF tripDirs' = <<>> THEN "assemble" ELSE "scan"
    /\ UNCHANGED <<rootKind, tmplExists, tmplRead, fsDir, prior, output, written,
                   trips, dirIdx, tripIdx, imgIdx, imageElements, tripSections, content,
                   travelHtml, decoded, fmtVars, metaVars>>

\* lines 214-231: one iteration of tripDirs.forEach
ScanDir ==
    /\ pc = "scan"
    /\ \E res \in {Unreadable} \cup {Listing(fl) : fl \in DirListings} :
        LET tripDir == tripDirs[dirIdx]
            images == getImageFiles(res)
        IN /\ fsDir' = Append(fsDir, IF res = Unreadable
                                     THEN [threw |-> TRUE, files |-> {}]
                                     ELSE [threw |-> FALSE, files |-> Range(res.files)])
           /\ trips' = IF Len(images) > 0
                       THEN Append(trips, [dir |-> tripDir, name |-> formatTripName(tripDir),
                                           images |-> images])
                       ELSE trips
           /\ dirIdx' = dirIdx + 1
           /\ pc' = IF dirIdx < Len(tripDirs) THEN "scan"
                    ELSE IF trips' = <<>> THEN "assemble" ELSE "render"
    /\ UNCHANGED <<rootKind, tmplExists, tmplRead, fsRoot, prior, output, written, tripDirs,
                   tripIdx, imgIdx, imageElements, tripSections, content,
                   travelHtml, decoded, fmtVars, metaVars>>

\* lines 132-156, 158-169, 175-178: one iteration of the loop over a trip's
\* images; after a trip's last image its section is built and pushed
RenderImage ==
    /\ pc = "render"
    /\ \E exif \in PipelineExif :
        LET trip == trips[tripIdx]
            imageName == trip.images[imgIdx]
            meta == getImageMetadata(exif)
            elements == Append(imageElements,
                               RenderImageElement(trip.dir, trip.name, imageName, meta))
        IN IF meta = Rejected
           THEN /\ pc' = "crashed"
                /\ UNCHANGED <<decoded, imageElements, imgIdx, tripIdx, tripSections>>
           ELSE /\ decoded' = Append(decoded, [dir |-> trip.dir, name |-> imageName,
                                               exif |-> exif, meta |-> meta])
                /\ IF imgIdx < Len(trip.images)
                   THEN /\ imageElements' = elements
                        /\ imgIdx' = imgIdx + 1
                        /\ UNCHANGED <<tripIdx, tripSections, pc>>
                   ELSE /\ tripSections' = Append(tripSections,
                               RenderSection(trip.dir, trip.name, trip.images, elements))
                        /\ imageElements' = <<>>
                        /\ imgIdx' = 1
                        /\ tripIdx' = tripIdx + 1
                        /\ pc' = IF tripIdx < Len(trips) THEN "render" ELSE "assemble"
    /\ UNCHANGED <<rootKind, tmplExists, tmplRead, fsRoot, fsDir, prior, output, written,
                   tripDirs, trips, dirIdx, content, travelHtml, fmtVars, metaVars>>

\* lines 180-189, 233: the rest of generateTravelPage
Assemble ==
    /\ pc = "assemble"
    /\ content' = PageContent(trips, tripSections)
    /\ \E read \in {ReadError} \cup {Str(tp) : tp \in Templates} :
        /\ tmplRead' = read
        /\ travelHtml' = generateTravelPage(content', read)
    /\ pc' = "write"
    /\ UNCHANGED <<rootKind, tmplExists, fsRoot, fsDir, prior, output, written, tripDirs,
                   trips, dirIdx, tripIdx, imgIdx, imageElements, tripSections,
                   decoded, fmtVars, metaVars>>

\* lines 235-241
Write ==
    /\ pc = "write"
    /\ IF ShouldWrite(travelHtml)
       THEN output' = Str(ToText(travelHtml)) /\ written' = TRUE
       ELSE UNCHANGED <<output, written>>
    /\ pc' = "done"
    /\ UNCHANGED <<rootKind, tmplExists, tmplRead, fsRoot, fsDir, prior, tripDirs,
                   trips, dirIdx, tripIdx, imgIdx, imageElements, tripSections, content,
                   travelHtml, decoded, fmtVars, metaVars>>

Next == CheckTravelDir \/ CheckTemplate \/ ListRoot \/ ScanDir \/ RenderImage \/ Assemble \/ Write

Spec == Init /\ [][Next]_vars

---------------------------------------------------------------------------
(* formatTripName called on its own *)

\* most dash-separated parts of a directory name
MaxParts == 4

Parts == {<<"2", "0", "2", "3">>, <<"0", "7">>, <<"1", "2">>, <<"1", "3">>, <<"0">>,
          <<"7", "x">>, <<"0", "x", "C">>, <<>>,
          <<"p", "a", "r", "i", "s">>, <<"f", "r", "a", "n", "c", "e">>, <<"m", "c", "D", "o", "n", "a", "l", "d">>}

InitFmt ==
    /\ dirParts \in UNION {[1..n -> Parts] : n \in 1..MaxParts}
    /\ dirName = join(dirParts, <<"-">>)
    /\ tripName = Undef
    /\ IdlePipeline /\ IdleMeta

CallFormatTripName ==
    /\ tripName = Undef
    /\ tripName' = Str(formatTripName(dirName))
    /\ UNCHANGED <<dirParts, dirName, pipelineVars, metaVars>>

SpecFmt == InitFmt /\ [][CallFormatTripName]_vars

---------------------------------------------------------------------------
(* getImageMetadata and the image block called on their own *)

Timestamps == {Undef, Str(<<>>), Str(<<"0", "0", "0", "0", ":", "0", "0", ":", "0", "0", " ", "0", "0", ":", "0", "0", ":", "0", "0">>), InvalidDate, DateV(28155825), DateV(26382245)}

Makes == {Undef, Str(<<"X">>)}

Models == {Undef, Str(<<"T">>)}

Latitudes == {Undef, Num(0), Num(48)}

Longitudes == {Undef, Num(0), Num(-2)}

Descriptions == {Undef, Str(<<>>), Str(<<"H", "i">>)}

Comments == {Undef, Str(<<>>), Str(<<"y", "o">>)}

ExifOutcomes ==
    {Throws, NoData} \cup
    {Data(dto, dt, make, model, lat, lng, descr, comment) :
        dto \in Timestamps, dt \in Timestamps, make \in Makes, model \in Models,
        lat \in Latitudes, lng \in Longitudes, descr \in Descriptions, comment \in Comments}

InitMeta ==
    /\ exifData \in ExifOutcomes
    /\ metadata = Undef
    /\ imageElement = <<>>
    /\ IdlePipeline /\ IdleFmt

CallGetImageMetadata ==
    /\ metadata = Undef
    /\ metadata' = getImageMetadata(exifData)
    /\ imageElement' = RenderImageElement(<<"d">>, <<"n">>, <<"i">>, metadata')
    /\ UNCHANGED <<exifData, pipelineVars, fmtVars>>

SpecMeta == InitMeta /\ [][CallGetImageMetadata]_vars

---------------------------------------------------------------------------
(* Reading a written document back *)

Positions(doc, token) == SelectSeq([n \in 1..Len(doc) |-> n], LAMBDA n : doc[n] = token)

\* the first position after `from` holding token, Len(doc) + 1 when none
NextToken(doc, token, from) ==
    LET later == {n \in (from + 1)..Len(doc) : doc[n] = token}
    IN IF later = {} THEN Len(doc) + 1 ELSE CHOOSE n \in later : \A m \in later : n <= m

\* the id attribute of the section opened at position p
SectionId(doc, p) == SubSeq(doc, p + 1, NextToken(doc, TitleOpen, p) - 1)

SectionIds(doc) ==
    LET starts == Positions(doc, SectionOpen)
    IN [n \in 1..Len(starts) |-> SectionId(doc, starts[n])]

\* the text of the photo count in the header of the section opened at p
SectionCount(doc, p) ==
    SubSeq(doc, NextToken(doc, CountOpen, p) + 1, NextToken(doc, CountClose, p) - 1)

\* the file names of the image blocks of the section opened at p, in order:
\* what follows the "/" after the directory in each src attribute
SectionImages(doc, p) ==
    LET body == SubSeq(doc, p, NextToken(doc, SectionClose, p))
        blocks == Positions(body, ImageOpen)
        src(b) == SubSeq(body, b + 1, NextToken(body, AltOpen, b) - 1)
        slash(b) == IndexOf(src(b), <<"/">>, 1)
    IN [n \in 1..Len(blocks) |-> SubSeq(src(blocks[n]), slash(blocks[n]) + 1, Len(src(blocks[n])))]

Ascending(names) == \A n \in 1..(Len(names) - 1) : StrLess(names[n], names[n + 1])

\* a name with a non-empty stem and, after its last dot, one of the five
\* extensions in any letter case
Qualifies(file) ==
    \E ext \in {<<"j", "p", "g">>, <<"j", "p", "e", "g">>, <<"p", "n", "g">>,
                <<"g", "i", "f">>, <<"w", "e", "b", "p">>} :
        /\ Len(file) > Len(ext) + 1
        /\ file[Len(file) - Len(ext)] = "."
        /\ \A n \in 1..Len(ext) :
              file[Len(file) - Len(ext) + n] \in {ext[n], toUpperCase(ext[n])}

\* the immediate subdirectories of the root that hold a qualifying image
\* file and whose listing did not fail
DirsWithImages ==
    {tripDirs[n] : n \in {m \in 1..Len(fsDir) :
        ~fsDir[m].threw /\ \E f \in fsDir[m].files : Qualifies(f)}}

---------------------------------------------------------------------------
(* Claims about a run of main *)

\* C1: in a run that writes the document, every trip section's id is an
\* immediate subdirectory of the root with at least one qualifying image
\* file; a directory without one, or whose listing failed, gives no trip
\* and no section, and the directories after it are still scanned.
C1_SectionsOnlyForDirsWithImages ==
    /\ pc \in {"render", "assemble", "write", "done"} => Len(fsDir) = Len(tripDirs)
    /\ \A n \in 1..Len(trips) : trips[n].dir \in DirsWithImages
    /\ written =>
        /\ \A e \in fsRoot : e.name \in DirsWithImages => e.isDirectory
        /\ \A n \in 1..Len(SectionIds(output.v)) : SectionIds(output.v)[n] \in DirsWithImages

\* C2: once the root directory was found absent, or the template absent,
\* or reading the template failed, travel.html is never written: it stays
\* what it was before the run.
C2_NoWriteAfterFatal ==
    (rootKind = "absent" \/ tmplExists = "no" \/ tmplRead = ReadError)
        => ~written /\ output = prior

C2_Witness ==
    /\ pc = "done" /\ tmplRead = ReadError /\ trips # <<>>
    /\ prior = Str(<<"o", "l", "d">>) /\ output = prior

\* C3: every image whose decoder call threw or gave no data gets exactly
\* the all-fallback record; the run does not crash on it, and when the run
\* comes to the write step every image of every trip has been processed and
\* every trip has its section.
C3_DecodeFailureAbsorbed ==
    /\ \A n \in 1..Len(decoded) :
          decoded[n].exif \in {Throws, NoData} =>
              decoded[n].meta = [date |-> <<"Unknown date">>, camera |-> <<"Unknown camera">>,
                                 location |-> NullV, description |-> NullV]
    /\ pc = "crashed" => rootKind = "file"
    /\ pc \in {"write", "done"} =>
          /\ Len(tripSections) = Len(trips)
          /\ [n \in 1..Len(decoded) |-> <<decoded[n].dir, decoded[n].name>>]
               = Concat([n \in 1..Len(trips) |->
                            [m \in 1..Len(trips[n].images) |-> <<trips[n].dir, trips[n].images[m]>>]])

C3_Witness ==
    /\ pc = "done" /\ written /\ Len(decoded) >= 3
    /\ decoded[1].exif = Throws /\ decoded[2].exif = NoData /\ decoded[3].exif.kind = "data"

\* the number of places where the marker occurs in a text
MarkerCount(text) == Cardinality({n \in 1..Len(text) : IndexOf(text, Marker, n) = n})

\* C7: for a template prefix + marker + suffix holding the marker once, the
\* assembled page is prefix + content + suffix, where content is the trips'
\* fragments concatenated in order, or the "no trips found" placeholder when
\* there are none; a template without the marker comes out unchanged.
C7_PageIsPrefixContentSuffix ==
    (pc \in {"write", "done"} /\ tmplRead.t = "string") =>
        LET template == tmplRead.v
            p == IndexOf(template, Marker, 1)
        IN /\ content = IF trips = <<>> THEN <<NoTrips>> ELSE Concat(tripSections)
           /\ MarkerCount(template) = 0 => travelHtml = Str(template)
           /\ MarkerCount(template) = 1 =>
                 travelHtml = Str(SubSeq(template, 1, p - 1) \o content
                                  \o SubSeq(template, p + Len(Marker), Len(template)))

\* C8: in a written document the section ids ascend strictly in code-unit
\* order, the image blocks of each section ascend by file name, and each
\* header's photo count is the number of image blocks of its section.
C8_DocumentSorted ==
    written =>
        LET doc == output.v
            starts == Positions(doc, SectionOpen)
        IN /\ Ascending(SectionIds(doc))
           /\ \A n \in 1..Len(starts) :
                 /\ Ascending(SectionImages(doc, starts[n]))
                 /\ SectionCount(doc, starts[n]) = NatToText(Len(SectionImages(doc, starts[n])))

\* C10: a run that found the root directory and the template file and read
\* the template ends having written the assembled document to travel.html;
\* a finished run that did not write is one of the fatal cases.
C10_SuccessfulReadIsWritten ==
    /\ (pc = "done" /\ rootKind = "dir" /\ tmplExists = "yes" /\ tmplRead.t = "string")
          => written /\ output = travelHtml
    /\ (pc \in {"done", "aborted"} /\ ~written)
          => (rootKind = "absent" \/ tmplExists = "no" \/ tmplRead = ReadError)

\* What C1 and C8 say of the written document holds of the content handed
\* to replace(): its section ids are directories with images, ascending,
\* each section's images ascend and its count is its number of blocks.
ContentSectionsBackedAndSorted ==
    pc \in {"write", "done"} =>
        LET starts == Positions(content, SectionOpen)
        IN /\ SectionIds(content) = [n \in 1..Len(trips) |-> trips[n].dir]
           /\ \A n \in 1..Len(trips) : trips[n].dir \in DirsWithImages
           /\ Ascending(SectionIds(content))
           /\ \A n \in 1..Len(starts) :
                 /\ SectionImages(content, starts[n]) = trips[n].images
                 /\ Ascending(SectionImages(content, starts[n]))
                 /\ SectionCount(content, starts[n])
                       = NatToText(Len(SectionImages(content, starts[n])))

---------------------------------------------------------------------------
(* Claims about getImageMetadata and the image block *)

Parseable(x) == x.t = "date" /\ x.valid

\* C4: the date is the formatted original-capture timestamp when that is
\* present, else the formatted fallback timestamp when that is present, and
\* "Unknown date" when neither field holds a parseable timestamp.
C4_DateOrUnknown ==
    (metadata # Undef /\ exifData.kind = "data") =>
        /\ Parseable(exifData.DateTimeOriginal)
              => metadata.date = toLocaleDateString(exifData.DateTimeOriginal)
        /\ (exifData.DateTimeOriginal = Undef /\ Parseable(exifData.DateTime))
              => metadata.date = toLocaleDateString(exifData.DateTime)
        /\ (~Parseable(exifData.DateTimeOriginal) /\ ~Parseable(exifData.DateTime))
              => metadata.date = <<"Unknown date">>

HasMapLink(block) == \E n \in 1..Len(block) : block[n] = MapLinkOpen

\* C5: the image block holds a map link, with lat and lng in its URL,
\* exactly when the raw record has both latitude and longitude, whatever
\* their values.
C5_MapLinkIffBothCoordinates ==
    (metadata # Undef /\ exifData.kind = "data") =>
        LET both == exifData.latitude # Undef /\ exifData.longitude # Undef
            p == NextToken(imageElement, MapLinkOpen, 0)
        IN /\ HasMapLink(imageElement) <=> both
           /\ both => SubSeq(imageElement, p + 1, NextToken(imageElement, MapLinkClose, p) - 1)
                        = NumToText(exifData.latitude.v) \o <<",">> \o NumToText(exifData.longitude.v)

HasDescriptionLine(block) == \E n \in 1..Len(block) : block[n] = DescriptionOpen

\* the text the description line of a block shows
DescriptionLine(block) ==
    LET p == NextToken(block, DescriptionOpen, 0)
    IN SubSeq(block, p + 1, NextToken(block, ParagraphClose, p) - 1)

\* C6 as stated: the description is the original-description field whenever
\* that is present, even empty, else the user comment when present, else
\* absent; the description line is rendered exactly when it is present.
C6_DescriptionWheneverPresent ==
    (metadata # Undef /\ exifData.kind = "data") =>
        LET expected == IF exifData.ImageDescription # Undef THEN exifData.ImageDescription
                        ELSE IF exifData.UserComment # Undef THEN exifData.UserComment
                        ELSE NullV
        IN /\ metadata.description = expected
           /\ HasDescriptionLine(imageElement) <=> expected # NullV

NonEmpty(x) == x.t = "string" /\ Len(x.v) > 0

\* C6 amended: the description is the original-description field when
\* that is present and not empty, else the user comment when that is
\* present and not empty, else absent; the description line is rendered,
\* showing that text, exactly when the description is present.
C6_DescriptionWhenNonEmpty ==
    (metadata # Undef /\ exifData.kind = "data") =>
        LET expected == IF NonEmpty(exifData.ImageDescription) THEN exifData.ImageDescription
                        ELSE IF NonEmpty(exifData.UserComment) THEN exifData.UserComment
                        ELSE NullV
        IN /\ metadata.description = expected
           /\ HasDescriptionLine(imageElement) <=> expected # NullV
           /\ expected # NullV => DescriptionLine(imageElement) = expected.v

C6_Witness ==
    /\ metadata # Undef /\ exifData.kind = "data"
    /\ exifData.ImageDescription = Str(<<>>) /\ exifData.UserComment = Str(<<"y", "o">>)
    /\ metadata.description = Str(<<"y", "o">>)
    /\ DescriptionLine(imageElement) = <<"y", "o">>

---------------------------------------------------------------------------
(* Claims about formatTripName *)

IsDigitOf(c, digits) == \E n \in 1..Len(digits) : digits[n] = c

\* the longest run of digits a text starts with
LeadingDigits(text, digits) ==
    LET runs == {n \in 0..Len(text) : \A m \in 1..n : IsDigitOf(text[m], digits)}
    IN SubSeq(text, 1, CHOOSE n \in runs : \A m \in runs : m <= n)

RECURSIVE StripZeros(_)
StripZeros(text) == IF Len(text) > 1 /\ text[1] = "0" THEN StripZeros(Tail(text)) ELSE text

\* the month part reads as the integer n of 1..12: after leading blanks and
\* a plus sign, its leading decimal digits (hexadecimal after 0x) are a
\* numeral of n
ReadsAsMonth(part, n) ==
    LET blanks == {m \in 0..Len(part) : \A j \in 1..m : part[j] = " "}
        a == SubSeq(part, (CHOOSE m \in blanks : \A j \in blanks : j <= m) + 1, Len(part))
        b == IF a # <<>> /\ a[1] = "+" THEN Tail(a) ELSE a
        hex == Len(b) >= 2 /\ b[1] = "0" /\ b[2] \in {"x", "X"}
    IN IF hex
       THEN StripZeros([m \in 1..Len(LeadingDigits(SubSeq(b, 3, Len(b)), HexDigits \o UpperCase))
                           |-> toLowerCaseChar(LeadingDigits(SubSeq(b, 3, Len(b)), HexDigits \o UpperCase)[m])])
               = <<HexDigits[n + 1]>>
       ELSE StripZeros(LeadingDigits(b, Digits)) = NatToText(n)

\* the parts joined by single blanks, each unit that starts the text or
\* follows a blank upper-cased, all others as they are
ExpectedLocation(parts) ==
    LET joined == join(parts, <<" ">>)
    IN [n \in 1..Len(joined) |->
           IF n = 1 \/ joined[n - 1] = " " THEN toUpperCase(joined[n]) ELSE joined[n]]

\* C9: formatTripName always returns a string; for a name of at least three
\* dash-separated parts it is "<Month> <Year>, <Location>": the year is the
\* first part, the month the full month name when the second part reads as
\* an integer of 1..12 and the second part itself otherwise, the location
\* the other parts joined by blanks with each word's first unit upper-cased.
C9_FormatTripName ==
    tripName # Undef =>
        /\ tripName.t = "string"
        /\ Len(dirParts) >= 3 =>
              LET months == {n \in 1..12 : ReadsAsMonth(dirParts[2], n)}
                  month == IF months = {} THEN dirParts[2]
                           ELSE <<monthNames[CHOOSE n \in months : TRUE]>>
              IN tripName.v = month \o <<" ">> \o dirParts[1] \o <<",", " ">>
                              \o ExpectedLocation(SubSeq(dirParts, 3, Len(dirParts)))

C9_Witness ==
    /\ dirName = <<"2", "0", "2", "3", "-", "0", "7", "-", "p", "a", "r", "i", "s", "-", "f", "r", "a", "n", "c", "e">>
    /\ tripName = Str(<<"July", " ">> \o <<"2", "0", "2", "3">> \o <<",", " ">> \o <<"P", "a", "r", "i", "s", " ", "F", "r", "a", "n", "c", "e">>)

===========================================================================
